---- MODULE Spec2Model ----
(***************************************************************************)
(* A model of the ticket-price monitor (monitor.py, parse_event.py,        *)
(* notifier.py): the monitor loop of main(), the history file it appends   *)
(* to and re-reads at startup, and the alert rules evaluated every cycle.  *)
(*                                                                         *)
(* Money is counted in units of 1e-9 dollar, so that both tolerances of    *)
(* the code (1e-9 for a new low, 0.01 for a price change) are integers.    *)
(* The parser only yields amounts with at most two decimals, so every      *)
(* price of the model is a whole number of cents.                          *)
(***************************************************************************)
EXTENDS Integers, Sequences, FiniteSets, TLC

\* ------------------------------------------------------------ bounds

\* Cycles the process may start before the model stops exploring it.
MaxCycles == 2

\* The largest check_every_seconds the configuration offers.
MaxPeriod == 2

\* The most listing rows of a page of the rules specification.
MaxListings == 11

\* The listing table of a markup has at most MaxRows rows.
MaxRows == 2

\* ------------------------------------------------------ program constants

\* Python's None.
Null == -1

\* 1e-9, the tolerance of the new-low comparison.
NEW_LOW_TOL == 1

\* 0.01, the threshold of the price-change comparison.
PRICE_EPS == 10000000

\* One cent in the money unit.
Cent == PRICE_EPS

\* ------------------------------------------------------------ helpers

\* Python's seq[:n].
Take(s, n) == SubSeq(s, 1, IF Len(s) < n THEN Len(s) ELSE n)

\* Python's min() of a non-empty collection.
MinOf(S) == CHOOSE m \in S : \A x \in S : m <= x

\* The elements of a sequence.
Range(s) == {s[k] : k \in 1..Len(s)}

\* Insert x into the ascending sequence s.
RECURSIVE InsertSorted(_, _)
InsertSorted(x, s) ==
  IF s = <<>> THEN <<x>>
  ELSE IF x <= Head(s) THEN <<x>> \o s
  ELSE <<Head(s)>> \o InsertSorted(x, Tail(s))

\* Python's sorted().
RECURSIVE Sorted(_)
Sorted(s) == IF s = <<>> THEN <<>> ELSE InsertSorted(Head(s), Sorted(Tail(s)))

\* --------------------------------------------------------------- text

\* A text is a sequence of one-character strings.
Digits == <<"0", "1", "2", "3", "4", "5", "6", "7", "8", "9">>

IsDigit(c) == c \in Range(Digits)

DigitChar(d) == Digits[d + 1]

DigitVal(c) == CHOOSE d \in 0..9 : Digits[d + 1] = c

\* One dollar in the money unit.
Dollar == 100 * Cent

\* str(n) of a non-negative int.
RECURSIVE IntRepr(_)
IntRepr(n) ==
  IF n < 10 THEN <<DigitChar(n)>>
  ELSE IntRepr(n \div 10) \o <<DigitChar(n % 10)>>

\* str(v) of a float that is a whole number of cents: "0.0", "0.5", "1.25".
FloatRepr(v) ==
  LET cents == (v % Dollar) \div Cent
  IN IntRepr(v \div Dollar) \o <<".">>
       \o (IF cents % 10 = 0
             THEN <<DigitChar(cents \div 10)>>
             ELSE <<DigitChar(cents \div 10), DigitChar(cents % 10)>>)

\* The value of a run of digits.
RECURSIVE IntOf(_)
IntOf(ds) ==
  IF ds = <<>> THEN 0
  ELSE IntOf(SubSeq(ds, 1, Len(ds) - 1)) * 10 + DigitVal(ds[Len(ds)])

\* The value of the digits after the point, the first one weighing w.
RECURSIVE FracOf(_, _)
FracOf(fs, w) ==
  IF fs = <<>> \/ w = 0 THEN 0
  ELSE DigitVal(Head(fs)) * w + FracOf(Tail(fs), w \div 10)

\* str.strip(chars).
RECURSIVE StripLeft(_, _)
StripLeft(t, chars) ==
  IF t # <<>> /\ Head(t) \in chars THEN StripLeft(Tail(t), chars) ELSE t

RECURSIVE StripRight(_, _)
StripRight(t, chars) ==
  IF t # <<>> /\ t[Len(t)] \in chars
    THEN StripRight(SubSeq(t, 1, Len(t) - 1), chars)
    ELSE t

Strip(t, chars) == StripRight(StripLeft(t, chars), chars)

\* The characters str.strip() removes.
Blank == {" "}

\* The place of the first c in t, 0 without one.
FirstIndex(t, c) ==
  IF \E k \in 1..Len(t) : t[k] = c
    THEN CHOOSE k \in 1..Len(t) : t[k] = c /\ \A j \in 1..(k - 1) : t[j] # c
    ELSE 0

\* str.split(sep) for a one-character separator.
RECURSIVE Split(_, _)
Split(t, sep) ==
  LET k == FirstIndex(t, sep)
  IN IF k = 0 THEN <<t>>
     ELSE <<SubSeq(t, 1, k - 1)>> \o Split(SubSeq(t, k + 1, Len(t)), sep)

\* The digits before and after the first point of a text.
IntDigits(t) ==
  LET k == FirstIndex(t, ".") IN IF k = 0 THEN t ELSE SubSeq(t, 1, k - 1)

FracDigits(t) ==
  LET k == FirstIndex(t, ".") IN IF k = 0 THEN <<>> ELSE SubSeq(t, k + 1, Len(t))

\* float(t) does not raise ValueError: digits with at most one point.
IsFloatText(t) ==
  LET u == Strip(t, Blank)
  IN /\ \A k \in 1..Len(IntDigits(u)) : IsDigit(IntDigits(u)[k])
     /\ \A k \in 1..Len(FracDigits(u)) : IsDigit(FracDigits(u)[k])
     /\ Len(IntDigits(u)) + Len(FracDigits(u)) > 0

\* float(t), in the money unit.
ParseFloat(t) ==
  LET u == Strip(t, Blank)
  IN IntOf(IntDigits(u)) * Dollar + FracOf(FracDigits(u), Dollar \div 10)

\* int(t) does not raise ValueError.
IsIntText(t) ==
  LET u == Strip(t, Blank)
  IN u # <<>> /\ \A k \in 1..Len(u) : IsDigit(u[k])

\* int(t).
ParseInt(t) == IntOf(Strip(t, Blank))

\* ", ".join(texts).
RECURSIVE JoinComma(_)
JoinComma(ts) ==
  IF ts = <<>> THEN <<>>
  ELSE IF Len(ts) = 1 THEN ts[1]
  ELSE ts[1] \o <<",", " ">> \o JoinComma(Tail(ts))

\* str(prices) of a list of floats: "[0.01, 0.04]".
ListRepr(prices) ==
  <<"[">> \o JoinComma([k \in 1..Len(prices) |-> FloatRepr(prices[k])]) \o <<"]">>

\* ------------------------------------------------------------- parser

\* What a fetched page holds for the parser: the amount of the "Lowest
\* Price" summary (after the full-text fallback; Null when no amount is
\* found) and, per "Buy" row in page order, the first amount of the row.
Page(lowest, rows) == [lowest |-> lowest, rows |-> rows]

\* The pages the site serves: nothing parseable, listings without a summary
\* amount, a summary amount of zero, summary amounts with and without
\* listings, listings below and above the summary amount.
Pages ==
  {Page(Null, <<>>),
   Page(Null, <<2 * Cent>>),
   Page(Cent, <<2 * Cent>>),
   Page(0, <<>>),
   Page(2 * Cent, <<4 * Cent, Cent>>),
   Page(4 * Cent, <<>>)}

\* parse_prices_summary as it would be with num_listings = len(prices).
parse_prices_summary_counting(page) ==
  LET prices == page.rows
  IN [lowest_price       |-> page.lowest,
      computed_min_price |-> IF prices # <<>> THEN MinOf(Range(prices)) ELSE Null,
      num_listings       |-> Len(prices),
      all_prices         |-> IF prices # <<>> THEN Sorted(prices) ELSE <<>>]

\* parse_prices_summary: the summary of a page.
parse_prices_summary(page) ==
  LET prices == page.rows
  IN [lowest_price       |-> page.lowest,
      computed_min_price |-> IF prices # <<>> THEN MinOf(Range(prices)) ELSE Null,
      num_listings       |-> IF prices # <<>> THEN Len(prices) ELSE Null,
      all_prices         |-> IF prices # <<>> THEN Sorted(prices) ELSE <<>>]

\* ------------------------------------------------------------- markup

UpperCase ==
  <<"A", "B", "C", "D", "E", "F", "G", "H", "I", "J", "K", "L", "M",
    "N", "O", "P", "Q", "R", "S", "T", "U", "V", "W", "X", "Y", "Z">>

LowerCase ==
  <<"a", "b", "c", "d", "e", "f", "g", "h", "i", "j", "k", "l", "m",
    "n", "o", "p", "q", "r", "s", "t", "u", "v", "w", "x", "y", "z">>

\* Case folding of re.I.
Lower(c) ==
  IF c \in Range(UpperCase)
    THEN LowerCase[CHOOSE k \in 1..26 : UpperCase[k] = c]
  ELSE c

\* A character of \w.
IsWordChar(c) == c \in Range(UpperCase) \cup Range(LowerCase) \cup Range(Digits) \cup {"_"}

\* \bBuy\b, ignoring case, matches t at position i.
HasBuyAt(t, i) ==
  /\ i + 2 <= Len(t)
  /\ Lower(t[i]) = "b" /\ Lower(t[i + 1]) = "u" /\ Lower(t[i + 2]) = "y"
  /\ i = 1 \/ ~IsWordChar(t[i - 1])
  /\ i + 2 = Len(t) \/ ~IsWordChar(t[i + 3])

\* re.compile(r"\bBuy\b", re.I) finds a match in the text.
HasBuy(t) == \E i \in 1..Len(t) : HasBuyAt(t, i)

\* text.replace(",", "").
RemoveCommas(t) == SelectSeq(t, LAMBDA c : c # ",")

\* The first position from j on that holds no blank.
RECURSIVE SkipBlanks(_, _)
SkipBlanks(t, j) ==
  IF j <= Len(t) /\ t[j] \in Blank THEN SkipBlanks(t, j + 1) ELSE j

\* The number of digits in a row from position j on.
RECURSIVE DigitRun(_, _)
DigitRun(t, j) ==
  IF j <= Len(t) /\ IsDigit(t[j]) THEN 1 + DigitRun(t, j + 1) ELSE 0

\* group(1) of _MONEY_RE matched at position i: "$", blanks, digits, and a
\* point with one or two digits when they follow; the empty text when the
\* pattern does not match there.
MoneyGroupAt(t, i) ==
  IF t[i] # "$" THEN <<>>
  ELSE LET j == SkipBlanks(t, i + 1)
           n == DigitRun(t, j)
           k == j + n
           f == IF k <= Len(t) /\ t[k] = "."
                  THEN (IF DigitRun(t, k + 1) > 2 THEN 2 ELSE DigitRun(t, k + 1))
                ELSE 0
       IN IF n = 0 THEN <<>>
          ELSE IF f = 0 THEN SubSeq(t, j, k - 1)
          ELSE SubSeq(t, j, k + f)

\* _MONEY_RE.search(t): group(1) of the leftmost match, the empty text
\* without a match.
MoneySearch(t) ==
  LET hits == {i \in 1..Len(t) : MoneyGroupAt(t, i) # <<>>}
  IN IF hits = {} THEN <<>>
     ELSE MoneyGroupAt(t, CHOOSE i \in hits : \A j \in hits : i <= j)

\* _parse_money: the first amount of the text, None without one.
parse_money(text) ==
  IF text = <<>> THEN Null
  ELSE LET m == MoneySearch(RemoveCommas(text))
       IN IF m = <<>> THEN Null ELSE ParseFloat(m)

\* `if price:` holds: the price is neither None nor 0.0.
Truthy(price) == price # Null /\ price # 0

\* The inner loop over the cells of a row: the first truthy price, Null
\* when no cell has one.
RECURSIVE RowPrice(_)
RowPrice(td_texts) ==
  IF td_texts = <<>> THEN Null
  ELSE IF Truthy(parse_money(Head(td_texts))) THEN parse_money(Head(td_texts))
  ELSE RowPrice(Tail(td_texts))

\* tr.find(text=re.compile(r"\bBuy\b", re.I)): a text of the row matches.
RowHasBuy(tr) == \E k \in 1..Len(tr) : HasBuy(tr[k])

\* The loop over the rows of the table: prices, in row order.
RECURSIVE ListingPrices(_)
ListingPrices(rows) ==
  IF rows = <<>> THEN <<>>
  ELSE IF RowHasBuy(Head(rows)) /\ RowPrice(Head(rows)) # Null
    THEN <<RowPrice(Head(rows))>> \o ListingPrices(Tail(rows))
  ELSE ListingPrices(Tail(rows))

\* The markup of a page: the text of the element that holds the "Lowest
\* Price" label (empty when the page has no such label) and the rows of the
\* listing table, each the texts of its cells.
Markup(box, table) == [box |-> box, table |-> table]

\* The texts joined by single blanks.
RECURSIVE JoinBlank(_)
JoinBlank(ts) ==
  IF ts = <<>> THEN <<>>
  ELSE IF Len(ts) = 1 THEN ts[1]
  ELSE ts[1] \o <<" ">> \o JoinBlank(Tail(ts))

\* The cells of all rows, in document order.
RECURSIVE Cells(_)
Cells(rows) == IF rows = <<>> THEN <<>> ELSE Head(rows) \o Cells(Tail(rows))

\* soup.get_text(" ", strip=True).
FullText(m) ==
  JoinBlank(SelectSeq(<<m.box>> \o Cells(m.table), LAMBDA t : t # <<>>))

\* The lowest price: the amount next to the label and, without one, the
\* first amount anywhere in the text (commas not removed).
LowestOf(m) ==
  IF parse_money(m.box) # Null THEN parse_money(m.box)
  ELSE LET g == MoneySearch(FullText(m))
       IN IF g = <<>> THEN Null ELSE ParseFloat(g)

\* What parse_prices_summary extracts from the markup.
PageOf(m) == Page(LowestOf(m), ListingPrices(m.table))

\* ------------------------------------------------------------ history

\* A CSV cell of a float: the empty text for None, str(v) otherwise.
FloatCell(v) == IF v = Null THEN <<>> ELSE FloatRepr(v)

\* ReadPrices as it would be splitting at the blanks instead of the commas.
ReadPricesSplitAtBlanks(all_prices_str) ==
  LET prices_str == Strip(all_prices_str, {"[", "]"})
      pieces     == Split(prices_str, " ")
  IN IF all_prices_str = <<>> \/ all_prices_str = <<"[", "]">> \/ prices_str = <<>>
       THEN <<>>
     ELSE IF \E k \in 1..Len(pieces) : ~IsFloatText(pieces[k])
       THEN <<>>
     ELSE [k \in 1..Len(pieces) |-> ParseFloat(pieces[k])]

\* A CSV cell of an int: the empty text for None, str(n) otherwise.
IntCell(n) == IF n = Null THEN <<>> ELSE IntRepr(n)

\* row.get(field) is truthy: the cell is not the empty text.
CellSet(c) == c # <<>>

\* The row main() builds from a summary (timestamp, median_sale and URL
\* left out); all_prices is written as str(list).
HistoryRow(s) ==
  [lowest_price       |-> FloatCell(s.lowest_price),
   page_lowest_price  |-> FloatCell(s.lowest_price),
   computed_min_price |-> FloatCell(s.computed_min_price),
   num_listings       |-> IntCell(s.num_listings),
   all_prices         |-> ListRepr(s.all_prices)]

\* append_history as it would be with the file opened in mode "w".
append_history_truncating(h, row) == <<row>>

\* append_history: the file with one more row at its end.
append_history(h, row) == Append(h, row)

\* os.path.exists(HISTORY_CSV): append_history wrote the header with the
\* first row, so the file exists when it holds a header line.
file_exists(n) == n > 0

\* append_history: the header is written when the file did not exist.
HeaderLinesAfterAppend(n) == IF ~file_exists(n) THEN n + 1 ELSE n

\* The header lines of a history file earlier runs left behind.
HeaderLinesOf(h) == IF h = <<>> THEN 0 ELSE 1

\* The rows of read_last_lowest that hold a lowest_price.
LowRows(h) == {j \in 1..Len(h) : CellSet(h[j].lowest_price)}

\* read_last_lowest: the minimum lowest_price of the file, None without one
\* or when a cell is no number.
read_last_lowest(h) ==
  IF \E k \in LowRows(h) : ~IsFloatText(h[k].lowest_price) THEN Null
  ELSE LET lows == {ParseFloat(h[k].lowest_price) : k \in LowRows(h)}
       IN IF lows # {} THEN MinOf(lows) ELSE Null

\* The empty dict {} that stands for "no prior observation".
NoState ==
  [empty |-> TRUE, lowest_price |-> Null, num_listings |-> Null, all_prices |-> <<>>]

\* The dict of an observation.
StateOf(lp, n, prices) ==
  [empty |-> FALSE, lowest_price |-> lp, num_listings |-> n, all_prices |-> prices]

\* The all_prices cell parsed back: the brackets stripped, the rest split at
\* the commas, every piece stripped and converted; [] when a piece is no
\* number.
ReadPrices(all_prices_str) ==
  LET prices_str == Strip(all_prices_str, {"[", "]"})
      pieces     == Split(prices_str, ",")
  IN IF all_prices_str = <<>> \/ all_prices_str = <<"[", "]">> \/ prices_str = <<>>
       THEN <<>>
     ELSE IF \E k \in 1..Len(pieces) : ~IsFloatText(pieces[k])
       THEN <<>>
     ELSE [k \in 1..Len(pieces) |-> ParseFloat(pieces[k])]

\* read_last_state: the last row of the file as a state, {} without one or
\* when a number cell is no number.
read_last_state(h) ==
  IF Len(h) = 0 THEN NoState
  ELSE LET last_row == h[Len(h)]
       IN IF \/ CellSet(last_row.lowest_price) /\ ~IsFloatText(last_row.lowest_price)
             \/ CellSet(last_row.num_listings) /\ ~IsIntText(last_row.num_listings)
            THEN NoState
          ELSE StateOf(IF CellSet(last_row.lowest_price)
                         THEN ParseFloat(last_row.lowest_price) ELSE Null,
                       IF CellSet(last_row.num_listings)
                         THEN ParseInt(last_row.num_listings) ELSE Null,
                       ReadPrices(last_row.all_prices))

\* ------------------------------------------------------- alert rules

\* Python's abs().
Abs(x) == IF x < 0 THEN -x ELSE x

\* TargetRule as it would be without the target_price > 0 test.
TargetRuleNeverDisabled(lp, target) ==
  IF lp # Null /\ lp <= target
    THEN <<[kind |-> "target", lowest |-> lp, target |-> target]>>
    ELSE <<>>

\* Rule 1, the price target alert.
TargetRule(lp, target) ==
  IF lp # Null /\ target > 0 /\ lp <= target
    THEN <<[kind |-> "target", lowest |-> lp, target |-> target]>>
    ELSE <<>>

\* min([v for v in [lp, cmp_min] if v is not None], default=None).
EffectiveLow(lp, cmp_min) ==
  LET vs == {v \in {lp, cmp_min} : v # Null}
  IN IF vs # {} THEN MinOf(vs) ELSE Null

\* NewLowFires as it would be with <= in place of the tolerance.
NewLowFiresOnEqual(enabled, eff, atl) ==
  /\ enabled
  /\ eff # Null
  /\ (atl = Null \/ eff <= atl)

\* Rule 2 fires: a new all-time low.
NewLowFires(enabled, eff, atl) ==
  /\ enabled
  /\ eff # Null
  /\ (atl = Null \/ eff < atl - NEW_LOW_TOL)

\* Rule 2, its message.
NewLowRule(enabled, eff, atl) ==
  IF NewLowFires(enabled, eff, atl)
    THEN <<[kind |-> "newlow", low |-> eff, old |-> atl]>>
    ELSE <<>>

\* The guard of the movement block: a prior state and a listing count.
MovementGuard(last, n) == ~last.empty /\ n # Null

\* ListingRule as it would be with the sign of the difference mistaken.
ListingRuleSignSwapped(last, n) ==
  IF MovementGuard(last, n) /\ last.num_listings # Null /\ n # last.num_listings
    THEN LET diff == last.num_listings - n
         IN IF diff > 0
              THEN <<[kind |-> "posted", diff |-> diff, total |-> n]>>
              ELSE <<[kind |-> "sold", diff |-> Abs(diff), total |-> n]>>
    ELSE <<>>

\* Rule 3, tickets posted or sold.
ListingRule(last, n) ==
  IF MovementGuard(last, n) /\ last.num_listings # Null /\ n # last.num_listings
    THEN LET diff == n - last.num_listings
         IN IF diff > 0
              THEN <<[kind |-> "posted", diff |-> diff, total |-> n]>>
              ELSE <<[kind |-> "sold", diff |-> Abs(diff), total |-> n]>>
    ELSE <<>>

\* Rule 4, the lowest price moved.
PriceRule(last, n, lp) ==
  IF /\ MovementGuard(last, n)
     /\ last.lowest_price # Null
     /\ lp # Null
     /\ Abs(lp - last.lowest_price) > PRICE_EPS
    THEN <<[kind |-> "price", old |-> last.lowest_price, new |-> lp,
            up |-> lp > last.lowest_price]>>
    ELSE <<>>

\* MarketRule as it would be with the lower middle element as the median.
MarketRuleLowerMiddle(movement_detected, all_prices) ==
  LET lowest_5  == Take(all_prices, 5)
      bottom_10 == Take(all_prices, 10)
  IN IF movement_detected /\ all_prices # <<>> /\ bottom_10 # <<>>
       THEN <<[kind |-> "market", lowest_5 |-> lowest_5,
               median |-> Sorted(bottom_10)[((Len(bottom_10) - 1) \div 2) + 1]]>>
       ELSE <<>>

\* Rule 5, the market snapshot that follows a movement.
MarketRule(movement_detected, all_prices) ==
  LET lowest_5  == Take(all_prices, 5)
      bottom_10 == Take(all_prices, 10)
  IN IF movement_detected /\ all_prices # <<>> /\ bottom_10 # <<>>
       THEN <<[kind |-> "market", lowest_5 |-> lowest_5,
               median |-> Sorted(bottom_10)[(Len(bottom_10) \div 2) + 1]]>>
       ELSE <<>>

\* TriggerMsgs as it would be with the target alert raised only when the
\* last observation was not already at or below the target.
TriggerMsgsTargetOnEdge(s, last, atl, target, enabled) ==
  LET movement == ListingRule(last, s.num_listings)
                    \o PriceRule(last, s.num_listings, s.lowest_price)
      edge     == last.empty \/ last.lowest_price = Null \/ last.lowest_price > target
  IN (IF edge THEN TargetRule(s.lowest_price, target) ELSE <<>>)
       \o NewLowRule(enabled, EffectiveLow(s.lowest_price, s.computed_min_price), atl)
       \o movement
       \o MarketRule(movement # <<>>, s.all_prices)

\* TriggerMsgs as it would be with the movement rules evaluated first.
TriggerMsgsMovementFirst(s, last, atl, target, enabled) ==
  LET movement == ListingRule(last, s.num_listings)
                    \o PriceRule(last, s.num_listings, s.lowest_price)
  IN movement
       \o TargetRule(s.lowest_price, target)
       \o NewLowRule(enabled, EffectiveLow(s.lowest_price, s.computed_min_price), atl)
       \o MarketRule(movement # <<>>, s.all_prices)

\* trigger_msgs of one cycle.
TriggerMsgs(s, last, atl, target, enabled) ==
  LET movement == ListingRule(last, s.num_listings)
                    \o PriceRule(last, s.num_listings, s.lowest_price)
  IN TargetRule(s.lowest_price, target)
       \o NewLowRule(enabled, EffectiveLow(s.lowest_price, s.computed_min_price), atl)
       \o movement
       \o MarketRule(movement # <<>>, s.all_prices)

\* NextAllTimeLow as it would be if the page's lowest price were stored.
NextAllTimeLowPagePrice(s, atl, enabled) ==
  LET eff == EffectiveLow(s.lowest_price, s.computed_min_price)
  IN IF NewLowFires(enabled, eff, atl) /\ s.lowest_price # Null
       THEN s.lowest_price
       ELSE IF NewLowFires(enabled, eff, atl) THEN eff ELSE atl

\* NextAllTimeLow as it would be if every effective low were stored.
NextAllTimeLowTracksCurrent(s, atl, enabled) ==
  LET eff == EffectiveLow(s.lowest_price, s.computed_min_price)
  IN IF enabled /\ eff # Null THEN eff ELSE atl

\* all_time_low after the rules of one cycle.
NextAllTimeLow(s, atl, enabled) ==
  LET eff == EffectiveLow(s.lowest_price, s.computed_min_price)
  IN IF NewLowFires(enabled, eff, atl) THEN eff ELSE atl

\* ------------------------------------------------------------- state

VARIABLES
  target_price,       \* cfg target_price
  notify_on_new_low,  \* cfg notify_on_new_low
  run_once,           \* RUN_ONCE / cfg run_once
  period,             \* cfg check_every_seconds
  history,            \* the rows of price_history.csv
  header_lines,       \* the header lines of price_history.csv (0: no file)
  stop,               \* the flag handle_sigint sets
  pc,                 \* where main() stands
  tick,               \* the index of the sleep loop
  html,               \* the fetched page of the cycle
  summary,            \* the parsed summary of the cycle
  trigger_msgs,       \* the messages the rules of the cycle appended
  all_time_low,       \* MonitorState.all_time_low
  last_state,         \* MonitorState.last_state
  cycles,             \* cycles started so far
  startLen,           \* rows the file held when the process started
  failed,             \* the step at which the cycle raised, "none" otherwise
  detected,           \* the rules of the cycle have been evaluated
  sent,               \* the notifications the cycle handed to the notifier
  pre,                \* all_time_low, last_state and history at cycle start
  stopAt,             \* where main() stood when the flag was first set
  sleepsAfterStop     \* one-second sleeps completed since the flag was set

vars == <<target_price, notify_on_new_low, run_once, period, history, header_lines, stop, pc,
          tick, html, summary, trigger_msgs, all_time_low, last_state,
          cycles, startLen, failed, detected, sent, pre, stopAt,
          sleepsAfterStop>>

\* No page fetched, no summary parsed yet.
NoPage == Page(Null, <<>>)

NoSummary == parse_prices_summary(NoPage)

\* The snapshot taken when a cycle starts.
Snapshot == [all_time_low |-> all_time_low, last_state |-> last_state,
             history |-> history]

\* The positions of main() inside a cycle and inside the sleep loop.
CyclePcs == {"fetch", "parse", "persist", "detect", "notify", "after"}

WaitPcs == {"wait", "sleep"}

\* Where the flag was set, for a position of main().
StopPlace(p) ==
  IF p \in CyclePcs THEN "cycle" ELSE IF p \in WaitPcs THEN "wait" ELSE "top"

\* main() up to the loop: the configuration is read, the handler installed,
\* all_time_low and last_state are loaded from the history file.
Startup(h) ==
  /\ stop = FALSE
  /\ pc = "top"
  /\ tick = 0
  /\ html = NoPage
  /\ summary = NoSummary
  /\ trigger_msgs = <<>>
  /\ all_time_low = read_last_lowest(h)
  /\ last_state = read_last_state(h)
  /\ cycles = 0
  /\ startLen = Len(h)
  /\ failed = "none"
  /\ detected = FALSE
  /\ sent = <<>>
  /\ pre = [all_time_low |-> read_last_lowest(h),
            last_state |-> read_last_state(h), history |-> h]
  /\ stopAt = "none"
  /\ sleepsAfterStop = 0

\* The history file at startup: absent, or one row an earlier run wrote.
InitHistories ==
  {<<>>} \cup {<<HistoryRow(parse_prices_summary(page))>> : page \in Pages}

Init ==
  /\ target_price \in {0, 2 * Cent}
  /\ notify_on_new_low \in BOOLEAN
  /\ run_once \in BOOLEAN
  /\ period \in {0, MaxPeriod}
  /\ history \in InitHistories
  /\ header_lines = HeaderLinesOf(history)
  /\ Startup(history)

\* ----------------------------------------------------------- actions

\* handle_sigint: the interrupt sets the flag, wherever main() stands.
SigInt ==
  /\ pc # "stopped"
  /\ ~stop
  /\ stop' = TRUE
  /\ stopAt' = StopPlace(pc)
  /\ UNCHANGED <<target_price, notify_on_new_low, run_once, period, history, header_lines, pc,
                 tick, html, summary, trigger_msgs, all_time_low, last_state,
                 cycles, startLen, failed, detected, sent, pre,
                 sleepsAfterStop>>

\* while not stop: the loop ends, or a cycle starts.
LoopTop ==
  /\ pc = "top"
  /\ IF stop
       THEN /\ pc' = "stopped"
            /\ UNCHANGED <<cycles, failed, detected, sent, pre, trigger_msgs>>
       ELSE /\ cycles < MaxCycles
            /\ pc' = "fetch"
            /\ cycles' = cycles + 1
            /\ failed' = "none"
            /\ detected' = FALSE
            /\ sent' = <<>>
            /\ trigger_msgs' = <<>>
            /\ pre' = Snapshot
  /\ UNCHANGED <<target_price, notify_on_new_low, run_once, period, history, header_lines, stop,
                 tick, html, summary, all_time_low, last_state, startLen,
                 stopAt, sleepsAfterStop>>

\* What a step of the cycle leaves alone.
CycleFrame ==
  UNCHANGED <<target_price, notify_on_new_low, run_once, period, stop, tick,
              cycles, startLen, pre, stopAt, sleepsAfterStop>>

\* Raise as it would be without the except clause: the exception ends main().
RaiseUncaught(step) ==
  /\ failed' = step
  /\ pc' = "stopped"
  /\ UNCHANGED <<history, header_lines, html, summary, trigger_msgs, all_time_low, last_state,
                 detected, sent>>
  /\ CycleFrame

\* Raise as it would be with the failing call alone inside the try: the
\* exception is logged and the cycle goes on to the rules.
RaiseContinues(step) ==
  /\ failed' = step
  /\ pc' = "detect"
  /\ UNCHANGED <<history, header_lines, html, summary, trigger_msgs, all_time_low, last_state,
                 detected, sent>>
  /\ CycleFrame

\* except Exception: the step raised, the rest of the cycle is skipped.
Raise(step) ==
  /\ failed' = step
  /\ pc' = "after"
  /\ UNCHANGED <<history, header_lines, html, summary, trigger_msgs, all_time_low, last_state,
                 detected, sent>>
  /\ CycleFrame

\* fetch_event_page returns a page.
Fetch ==
  /\ pc = "fetch"
  /\ \E page \in Pages : html' = page
  /\ pc' = "parse"
  /\ UNCHANGED <<history, header_lines, summary, trigger_msgs, all_time_low, last_state,
                 failed, detected, sent>>
  /\ CycleFrame

\* fetch_event_page raises (HTTP error status, timeout, no connection).
FetchFail == pc = "fetch" /\ Raise("fetch")

\* parse_prices_summary returns the summary of the page.
Parse ==
  /\ pc = "parse"
  /\ summary' = parse_prices_summary(html)
  /\ pc' = "persist"
  /\ UNCHANGED <<history, header_lines, html, trigger_msgs, all_time_low, last_state, failed,
                 detected, sent>>
  /\ CycleFrame

\* The parsing library raises.
ParseFail == pc = "parse" /\ Raise("parse")

\* append_history writes the row of the cycle.
Persist ==
  /\ pc = "persist"
  /\ history' = append_history(history, HistoryRow(summary))
  /\ header_lines' = HeaderLinesAfterAppend(header_lines)
  /\ pc' = "detect"
  /\ UNCHANGED <<html, summary, trigger_msgs, all_time_low, last_state, failed,
                 detected, sent>>
  /\ CycleFrame

\* append_history raises (the file cannot be opened or written).
PersistFail == pc = "persist" /\ Raise("persist")

\* Detect as it would be if a count of None left the stored count alone.
DetectKeepsCountOnNull ==
  /\ pc = "detect"
  /\ trigger_msgs' = TriggerMsgs(summary, last_state, all_time_low, target_price,
                                 notify_on_new_low)
  /\ all_time_low' = NextAllTimeLow(summary, all_time_low, notify_on_new_low)
  /\ last_state' = StateOf(summary.lowest_price,
                           IF summary.num_listings = Null
                             THEN last_state.num_listings
                             ELSE summary.num_listings,
                           summary.all_prices)
  /\ detected' = TRUE
  /\ pc' = IF trigger_msgs' # <<>> THEN "notify" ELSE "after"
  /\ UNCHANGED <<history, header_lines, html, summary, failed, sent>>
  /\ CycleFrame

\* Detect as it would be with the state update inside `if trigger_msgs:`.
DetectUpdatesOnAlert ==
  /\ pc = "detect"
  /\ trigger_msgs' = TriggerMsgs(summary, last_state, all_time_low, target_price,
                                 notify_on_new_low)
  /\ all_time_low' = NextAllTimeLow(summary, all_time_low, notify_on_new_low)
  /\ last_state' = IF trigger_msgs' # <<>>
                     THEN StateOf(summary.lowest_price, summary.num_listings,
                                  summary.all_prices)
                     ELSE last_state
  /\ detected' = TRUE
  /\ pc' = IF trigger_msgs' # <<>> THEN "notify" ELSE "after"
  /\ UNCHANGED <<history, header_lines, html, summary, failed, sent>>
  /\ CycleFrame

\* Lines 193-279: the rules are evaluated, all_time_low and last_state are
\* updated, and the notifier is called when a rule appended a message.
Detect ==
  /\ pc = "detect"
  /\ trigger_msgs' = TriggerMsgs(summary, last_state, all_time_low, target_price,
                                 notify_on_new_low)
  /\ all_time_low' = NextAllTimeLow(summary, all_time_low, notify_on_new_low)
  /\ last_state' = StateOf(summary.lowest_price, summary.num_listings,
                           summary.all_prices)
  /\ detected' = TRUE
  /\ pc' = IF trigger_msgs' # <<>> THEN "notify" ELSE "after"
  /\ UNCHANGED <<history, header_lines, html, summary, failed, sent>>
  /\ CycleFrame

\* notifier.notify delivers the messages (Slack, or the console).
Notify ==
  /\ pc = "notify"
  /\ sent' = Append(sent, trigger_msgs)
  /\ pc' = "after"
  /\ UNCHANGED <<history, header_lines, html, summary, trigger_msgs, all_time_low, last_state,
                 failed, detected>>
  /\ CycleFrame

\* notifier.notify raises (the console fallback cannot print).
NotifyFail == pc = "notify" /\ Raise("notify")

\* What a step of the loop outside the cycle leaves alone.
LoopFrame ==
  UNCHANGED <<target_price, notify_on_new_low, run_once, period, history, header_lines, stop,
              html, summary, trigger_msgs, all_time_low, last_state,
              cycles, startLen, failed, detected, sent, pre, stopAt>>

\* AfterCycle as it would be without the run_once break.
AfterCycleAlwaysWaits ==
  /\ pc = "after"
  /\ pc' = "wait"
  /\ tick' = 0
  /\ UNCHANGED sleepsAfterStop
  /\ LoopFrame

\* if run_once: break; otherwise the sleep loop is entered.
AfterCycle ==
  /\ pc = "after"
  /\ IF run_once
       THEN pc' = "stopped" /\ tick' = tick
       ELSE pc' = "wait" /\ tick' = 0
  /\ UNCHANGED sleepsAfterStop
  /\ LoopFrame

\* WaitCheck as it would be without the stop check in the sleep loop.
WaitCheckNoBreak ==
  /\ pc = "wait"
  /\ pc' = IF tick >= period THEN "top" ELSE "sleep"
  /\ UNCHANGED <<tick, sleepsAfterStop>>
  /\ LoopFrame

\* for _ in range(period): if stop: break
WaitCheck ==
  /\ pc = "wait"
  /\ pc' = IF tick >= period \/ stop THEN "top" ELSE "sleep"
  /\ UNCHANGED <<tick, sleepsAfterStop>>
  /\ LoopFrame

\* time.sleep(1) returns.
Sleep ==
  /\ pc = "sleep"
  /\ tick' = tick + 1
  /\ pc' = "wait"
  /\ sleepsAfterStop' = IF stop THEN sleepsAfterStop + 1 ELSE sleepsAfterStop
  /\ LoopFrame

\* The steps main() takes by itself.
Step ==
  \/ LoopTop
  \/ Fetch
  \/ FetchFail
  \/ Parse
  \/ ParseFail
  \/ Persist
  \/ PersistFail
  \/ Detect
  \/ Notify
  \/ NotifyFail
  \/ AfterCycle
  \/ WaitCheck
  \/ Sleep

Next ==
  \/ Step
  \/ SigInt

Spec == Init /\ [][Next]_vars

\* A start with no history file, a target price and new-low alerts enabled.
LiveInit ==
  /\ target_price = 2 * Cent
  /\ notify_on_new_low = TRUE
  /\ run_once \in BOOLEAN
  /\ period \in {0, MaxPeriod}
  /\ history = <<>>
  /\ header_lines = HeaderLinesOf(history)
  /\ Startup(history)

\* main() keeps running: a step that can be taken is taken. The loop
\* claims are checked under this specification.
LiveSpec == LiveInit /\ [][Next]_vars /\ WF_vars(Step)

\* ------------------------------------------- the rules on longer pages

\* n listing rows priced 5, 6, ... cents, the dearest first.
RampDown(n) == [k \in 1..n |-> (5 + n - k) * Cent]

\* Pages with up to MaxListings listing rows.
MarketPages ==
  {Page(lowest, RampDown(n)) : lowest \in {Null, 6 * Cent}, n \in 0..MaxListings}

\* The history a cycle may start with: absent, a row with one listing at
\* the same lowest price, a row without listings at another lowest price.
MarketHistories ==
  {<<>>,
   <<HistoryRow(parse_prices_summary(Page(6 * Cent, <<5 * Cent>>)))>>,
   <<HistoryRow(parse_prices_summary(Page(2 * Cent, <<>>)))>>}

\* A first cycle that has just fetched one of the longer pages.
RulesInit ==
  /\ target_price \in {0, 2 * Cent}
  /\ notify_on_new_low \in BOOLEAN
  /\ run_once = TRUE
  /\ period = 0
  /\ history \in MarketHistories
  /\ header_lines = HeaderLinesOf(history)
  /\ html \in MarketPages
  /\ stop = FALSE
  /\ pc = "parse"
  /\ tick = 0
  /\ summary = NoSummary
  /\ trigger_msgs = <<>>
  /\ all_time_low = read_last_lowest(history)
  /\ last_state = read_last_state(history)
  /\ cycles = 1
  /\ startLen = Len(history)
  /\ failed = "none"
  /\ detected = FALSE
  /\ sent = <<>>
  /\ pre = [all_time_low |-> read_last_lowest(history),
            last_state |-> read_last_state(history), history |-> history]
  /\ stopAt = "none"
  /\ sleepsAfterStop = 0

\* The page is parsed, its row appended and the rules evaluated.
RulesNext ==
  \/ Parse
  \/ Persist
  \/ Detect

RulesSpec == RulesInit /\ [][RulesNext]_vars

\* ------------------------------------------------------- parser spec

\* Rows of a listing table, as the texts of their cells: a price after the
\* Buy cell; prices in two cells before a lower-case buy; a zero amount
\* before a positive one; no Buy cell; a Buy cell without an amount;
\* "Buyer" instead of Buy; an amount with a thousands comma and a third
\* decimal; an amount without leading digit before one with a blank after
\* the "$"; a zero amount alone.
ListingRows ==
  {<<<<"B", "u", "y">>, <<"$", "1", ".", "5">>>>,
   <<<<"$", "0", ".", "5">>, <<"$", "1", ".", "5">>, <<"b", "u", "y">>>>,
   <<<<"$", "0">>, <<"$", "1">>, <<"B", "u", "y">>>>,
   <<<<"$", "1", ".", "5">>, <<"x">>>>,
   <<<<"B", "u", "y">>, <<"x">>>>,
   <<<<"B", "u", "y", "e", "r">>, <<"$", "1">>>>,
   <<<<"B", "u", "y", " ", "n", "o", "w">>, <<"$", "0", ",", "1", ".", "2", "5", "5">>>>,
   <<<<"B", "u", "y">>, <<"$", ".", "5">>, <<"$", " ", "1">>>>,
   <<<<"B", "u", "y">>, <<"$", "0", ".", "0", "0">>>>}

\* The element of the "Lowest Price" label: none, or with an amount.
Boxes ==
  {<<>>,
   <<"L", "o", "w", "e", "s", "t", " ", "P", "r", "i", "c", "e", " ", "$", "1", ".", "5">>}

\* Listing tables of up to MaxRows rows.
Tables == UNION {[1..n -> ListingRows] : n \in 0..MaxRows}

Markups == {Markup(box, table) : box \in Boxes, table \in Tables}

\* A first cycle that has just fetched a page, given as markup.
ParserInit ==
  /\ target_price = 0
  /\ notify_on_new_low = FALSE
  /\ run_once = TRUE
  /\ period = 0
  /\ history = <<>>
  /\ header_lines = HeaderLinesOf(history)
  /\ html \in Markups
  /\ stop = FALSE
  /\ pc = "parse"
  /\ tick = 0
  /\ summary = NoSummary
  /\ trigger_msgs = <<>>
  /\ all_time_low = read_last_lowest(history)
  /\ last_state = read_last_state(history)
  /\ cycles = 1
  /\ startLen = Len(history)
  /\ failed = "none"
  /\ detected = FALSE
  /\ sent = <<>>
  /\ pre = [all_time_low |-> read_last_lowest(history),
            last_state |-> read_last_state(history), history |-> history]
  /\ stopAt = "none"
  /\ sleepsAfterStop = 0

\* parse_prices_summary applied to the markup.
ParseMarkup ==
  /\ pc = "parse"
  /\ summary' = parse_prices_summary(PageOf(html))
  /\ pc' = "persist"
  /\ UNCHANGED <<history, header_lines, html, trigger_msgs, all_time_low,
                 last_state, failed, detected, sent>>
  /\ CycleFrame

ParserNext == ParseMarkup

ParserSpec == ParserInit /\ [][ParserNext]_vars

\* ------------------------------------------------------ loop claims

\* The cycle raised before its row was appended.
FailedBeforePersist == failed \in {"fetch", "parse", "persist"}

\* C1: in continuous mode a failure raised in a step of a cycle never ends
\* the loop: the step that raises leaves main() at the cycle boundary, the
\* loop then enters WAIT, no step takes it to STOPPED while the stop flag is
\* clear, and as long as the flag stays clear a further cycle is started.
FailureNeverEndsLoop ==
  /\ [][failed = "none" /\ failed' # "none" => pc' = "after"]_vars
  /\ [][pc = "after" /\ failed # "none" /\ ~run_once /\ pc' # pc
          => pc' = "wait"]_vars
  /\ [][failed # "none" /\ ~run_once /\ ~stop => pc' # "stopped"]_vars
  /\ \A n \in 1..(MaxCycles - 1) :
       [](pc = "after" /\ failed # "none" /\ ~run_once /\ cycles = n
            => <>(stop \/ cycles = n + 1))

\* C1 witness: a second cycle has started after a first one that failed.
FailureThenNextCycle ==
  /\ ~run_once
  /\ ~stop
  /\ cycles = 2
  /\ pc = "fetch"
  /\ Len(history) = startLen

\* C2: when the fetch fails no row is appended, no rule is evaluated and
\* nothing is sent; when the append fails no rule is evaluated and nothing
\* is sent; in both cases all_time_low and last_state are those the cycle
\* started with.
FailedStepSkipsRest ==
  /\ failed \in {"fetch", "persist"}
       => /\ ~detected
          /\ trigger_msgs = <<>>
          /\ sent = <<>>
          /\ all_time_low = pre.all_time_low
          /\ last_state = pre.last_state
  /\ failed = "fetch" => history = pre.history

\* C2 witness: the append failed in a cycle that had a prior observation to
\* compare with, and the loop has gone on to WAIT.
PersistFailedThenWait ==
  /\ failed = "persist"
  /\ pc = "wait"
  /\ ~pre.last_state.empty
  /\ summary.lowest_price # Null
  /\ summary.lowest_price # pre.last_state.lowest_price

\* C3: once the stop flag is set the loop starts no further fetch; a flag
\* set during WAIT lets at most one more one-second sleep complete, a flag
\* set during a cycle lets the cycle go on to its end and is followed by no
\* sleep at all; and the loop reaches STOPPED.
StopStartsNoFetch ==
  /\ [][stop /\ pc # "fetch" => pc' # "fetch"]_vars
  /\ [][stop /\ pc \in CyclePcs \ {"after"} => pc' \in CyclePcs]_vars
  /\ [](stopAt = "wait" => sleepsAfterStop <= 1)
  /\ [](stopAt \in {"cycle", "top"} => sleepsAfterStop = 0)
  /\ [](stop => <>(pc = "stopped"))

\* C3 witness: the flag was set during a sleep of a longer wait, that sleep
\* completed, and the loop stopped.
StoppedDuringWait ==
  /\ pc = "stopped"
  /\ stopAt = "wait"
  /\ sleepsAfterStop = 1
  /\ tick < period

\* C4 as stated: in run-once mode the loop never waits, starts no second
\* cycle, and has run exactly one cycle when it stops.
RunOnceExactlyOneCycle ==
  run_once => /\ pc \notin WaitPcs
              /\ cycles <= 1
              /\ (pc = "top" => cycles = 0)
              /\ (pc = "stopped" => cycles = 1)

\* C4: in run-once mode the loop never waits and starts no second cycle;
\* when it stops it has run exactly one cycle, unless the stop flag was set
\* before the first loop-top check, in which case it has run none.
RunOnceAtMostOneCycle ==
  run_once => /\ pc \notin WaitPcs
              /\ cycles <= 1
              /\ (pc = "top" => cycles = 0)
              /\ (pc = "stopped" => \/ cycles = 1
                                    \/ cycles = 0 /\ stopAt = "top")

\* C4 witness: a run-once process has stopped after its one cycle, which
\* failed.
RunOnceStoppedAfterFailure ==
  /\ run_once
  /\ pc = "stopped"
  /\ cycles = 1
  /\ failed # "none"
  /\ ~stop

\* ------------------------------------------------------ rule claims

\* The messages of the cycle of the given kinds, in order.
MsgsOfKind(kinds) == SelectSeq(trigger_msgs, LAMBDA m : m.kind \in kinds)

\* The observation the history held last when the cycle started: the one
\* immediately before the cycle's own.
HasPrior == Len(pre.history) > 0

PriorRow == pre.history[Len(pre.history)]

PriorLowest ==
  IF HasPrior /\ PriorRow.lowest_price # <<>>
    THEN ParseFloat(PriorRow.lowest_price) ELSE Null

PriorListings ==
  IF HasPrior /\ PriorRow.num_listings # <<>>
    THEN ParseInt(PriorRow.num_listings) ELSE Null

\* The minimum of the non-null values among lowest_price and
\* computed_min_price of the cycle's summary, Null when both are null.
SummaryLow ==
  IF summary.lowest_price = Null THEN summary.computed_min_price
  ELSE IF summary.computed_min_price = Null THEN summary.lowest_price
  ELSE IF summary.lowest_price < summary.computed_min_price
    THEN summary.lowest_price
    ELSE summary.computed_min_price

\* C5 as stated: a price-change message is emitted exactly when a prior
\* observation exists, both lowest prices are non-null and they differ by
\* more than 0.01, whatever the other fields of the summary.
PriceChangeWheneverMoved ==
  detected =>
    (MsgsOfKind({"price"}) # <<>>
       <=> /\ HasPrior
           /\ PriorLowest # Null
           /\ summary.lowest_price # Null
           /\ Abs(summary.lowest_price - PriorLowest) > PRICE_EPS)

\* C6 as stated, for the configuration that maintains all_time_low
\* (notify_on_new_low enabled): after every successful cycle all_time_low
\* is the minimum non-null lowest_price of the history, the value a restart
\* would load with read_last_lowest.
AllTimeLowIsHistoryMin ==
  detected /\ notify_on_new_low => all_time_low = read_last_lowest(history)

\* C7: with notify_on_new_low enabled a cycle emits a new-low message and
\* sets all_time_low to the effective low exactly when the effective low is
\* non-null and all_time_low was null or more than 1e-9 above it; otherwise,
\* and always when notify_on_new_low is disabled, it emits no new-low
\* message and leaves all_time_low as it was.
NewLowExactlyWhenLower ==
  detected =>
    IF /\ notify_on_new_low
       /\ SummaryLow # Null
       /\ (pre.all_time_low = Null \/ SummaryLow < pre.all_time_low - NEW_LOW_TOL)
      THEN /\ MsgsOfKind({"newlow"})
                = <<[kind |-> "newlow", low |-> SummaryLow, old |-> pre.all_time_low]>>
           /\ all_time_low = SummaryLow
      ELSE /\ MsgsOfKind({"newlow"}) = <<>>
           /\ all_time_low = pre.all_time_low

\* C7 witness: a cycle lowered a non-null all_time_low to a row price below
\* the page's lowest price.
NewLowFromListingRow ==
  /\ detected
  /\ pre.all_time_low # Null
  /\ summary.lowest_price # Null
  /\ all_time_low = summary.computed_min_price
  /\ all_time_low < summary.lowest_price
  /\ MsgsOfKind({"newlow"}) # <<>>

\* The cycle before this one succeeded in this process and observed the
\* same summary.
SameSummaryAgain ==
  /\ detected
  /\ Len(pre.history) > startLen
  /\ PriorRow = HistoryRow(summary)

\* C8: when the same summary is observed in two consecutive successful
\* cycles, the second emits no new-low message and leaves all_time_low
\* unchanged.
NewLowIdempotent ==
  SameSummaryAgain => /\ MsgsOfKind({"newlow"}) = <<>>
                      /\ all_time_low = pre.all_time_low

\* C8 witness: the second of two such cycles, with new-low alerts enabled,
\* for a summary whose row minimum is below its page price and became the
\* all-time low in the first.
SameSummaryAfterNewLow ==
  /\ SameSummaryAgain
  /\ notify_on_new_low
  /\ summary.computed_min_price # Null
  /\ summary.lowest_price # Null
  /\ summary.computed_min_price < summary.lowest_price
  /\ all_time_low = summary.computed_min_price
  /\ read_last_lowest(Take(history, startLen)) = Null

\* C9: a cycle emits exactly one listing-count message when the prior and
\* the current num_listings are both non-null and differ, "posted" when the
\* count rose and "sold" when it fell, with the absolute difference and the
\* new total; it emits none when the counts are equal, when either is null
\* or when there is no prior observation.
ListingChangeExact ==
  detected =>
    MsgsOfKind({"posted", "sold"})
      = IF /\ HasPrior
           /\ PriorListings # Null
           /\ summary.num_listings # Null
           /\ summary.num_listings # PriorListings
          THEN <<[kind  |-> IF summary.num_listings > PriorListings
                              THEN "posted" ELSE "sold",
                  diff  |-> Abs(summary.num_listings - PriorListings),
                  total |-> summary.num_listings]>>
          ELSE <<>>

\* C9 witness: two listings were observed, then one, and a "sold" message
\* for one ticket was emitted.
OneTicketSold ==
  /\ detected
  /\ PriorListings = 2
  /\ summary.num_listings = 1
  /\ MsgsOfKind({"sold"}) # <<>>

\* C10: a target-hit message is emitted in a cycle exactly when
\* target_price > 0 and the current lowest_price is non-null and at most
\* target_price; with target_price = 0 none is ever emitted.
TargetHitExact ==
  /\ detected =>
       (MsgsOfKind({"target"}) # <<>>
          <=> /\ target_price > 0
              /\ summary.lowest_price # Null
              /\ summary.lowest_price <= target_price)
  /\ Len(MsgsOfKind({"target"})) <= 1
  /\ target_price = 0 => MsgsOfKind({"target"}) = <<>>

\* C10 witness: the lowest price equals the target and the message is
\* emitted.
TargetHitAtTarget ==
  /\ detected
  /\ target_price > 0
  /\ summary.lowest_price = target_price
  /\ MsgsOfKind({"target"}) # <<>>

\* C11: a market-snapshot message is emitted exactly when a listing-count
\* or price-change message was emitted in the cycle and all_prices is not
\* empty; it lists the min(5, n) lowest prices and, as the median, the
\* element at index k \div 2 (counted from 0) of the k = min(10, n) lowest.
MarketSnapshotExact ==
  detected =>
    LET n == Len(summary.all_prices)
        k == IF n < 10 THEN n ELSE 10
    IN MsgsOfKind({"market"})
         = IF MsgsOfKind({"posted", "sold", "price"}) # <<>> /\ n > 0
             THEN <<[kind     |-> "market",
                     lowest_5 |-> SubSeq(summary.all_prices, 1, IF n < 5 THEN n ELSE 5),
                     median   |-> summary.all_prices[(k \div 2) + 1]]>>
             ELSE <<>>

\* C11 witness: a snapshot of more than ten listings, of which five are
\* listed and the sixth lowest is the median.
MarketSnapshotOfMany ==
  /\ detected
  /\ Len(summary.all_prices) > 10
  /\ MsgsOfKind({"market"}) # <<>>
  /\ MsgsOfKind({"market"})[1].median = 10 * Cent
  /\ Len(MsgsOfKind({"market"})[1].lowest_5) = 5

\* ----------------------------------------------------- state claims

\* C12: after every cycle that fetched, parsed and persisted, last_state
\* holds the cycle's lowest_price, num_listings and all_prices, whichever
\* rules fired and also when there was no prior state; and the state a
\* cycle compares with is the observation persisted last before it.
LastStateIsCurrentObservation ==
  /\ detected => /\ ~last_state.empty
                 /\ last_state.lowest_price = summary.lowest_price
                 /\ last_state.num_listings = summary.num_listings
                 /\ last_state.all_prices = summary.all_prices
  /\ pre.last_state.empty <=> ~HasPrior
  /\ pre.last_state.lowest_price = PriorLowest
  /\ pre.last_state.num_listings = PriorListings

\* C12 witness: a cycle without a prior state in which no rule fired has
\* stored its observation.
FirstObservationStoredSilently ==
  /\ detected
  /\ pre.last_state.empty
  /\ trigger_msgs = <<>>
  /\ last_state.num_listings = 2
  /\ last_state.lowest_price = 2 * Cent

\* A cycle is over and the next one has not started.
CycleOver == cycles > 0 /\ pc \in {"after", "wait", "sleep", "top", "stopped"}

RowAppended == Len(history) = Len(pre.history) + 1

\* C14: once the cycle has appended its row, read_last_state returns the
\* lowest_price, num_listings and all_prices of that row's summary (None as
\* None, the list as the same ordered list); and outside the interval
\* between the append and the state update of a cycle, the last_state the
\* process holds is the one read_last_state loads from the file.
LastObservationRoundTrip ==
  /\ RowAppended
       => read_last_state(history)
            = StateOf(summary.lowest_price, summary.num_listings, summary.all_prices)
  /\ pc # "detect" => last_state = read_last_state(history)

\* C14 witness: immediately after the append of a row with no lowest
\* price and one listing, which reads back as (None, 1, [0.02]), while the
\* state held from the cycle before has a list of two prices.
NullAndListReadBack ==
  /\ pc = "detect"
  /\ RowAppended
  /\ summary.lowest_price = Null
  /\ read_last_state(history) = StateOf(Null, 1, <<2 * Cent>>)
  /\ last_state.all_prices = <<Cent, 4 * Cent>>
  /\ last_state = read_last_state(pre.history)

\* --------------------------------------------------- parser claims

\* The summary of the markup has been returned.
Parsed == pc = "persist"

\* s is in ascending order.
Ascending(s) == \A k \in 1..(Len(s) - 1) : s[k] <= s[k + 1]

\* C15: every summary parse_prices_summary returns has all_prices in
\* ascending order, num_listings None exactly when all_prices is empty and
\* else its length (never 0), computed_min_price None exactly when
\* all_prices is empty and else its minimum; markup without a row that
\* holds "Buy" gives num_listings None and all_prices [].
SummaryWellFormed ==
  Parsed =>
    /\ Ascending(summary.all_prices)
    /\ summary.num_listings = Null <=> summary.all_prices = <<>>
    /\ summary.num_listings # Null
         => summary.num_listings = Len(summary.all_prices) /\ summary.num_listings # 0
    /\ summary.computed_min_price = Null <=> summary.all_prices = <<>>
    /\ summary.computed_min_price # Null
         => summary.computed_min_price = MinOf(Range(summary.all_prices))
    /\ (\A k \in 1..Len(html.table) : ~RowHasBuy(html.table[k]))
         => summary.num_listings = Null /\ summary.all_prices = <<>>

\* C15 witness: two Buy rows whose prices come in descending order (1.5,
\* then 0.5) are returned in ascending order with num_listings 2.
TwoRowsSortedAscending ==
  /\ Parsed
  /\ Len(html.table) = 2
  /\ ListingPrices(html.table) = <<3 * (Dollar \div 2), Dollar \div 2>>
  /\ summary.all_prices = <<Dollar \div 2, 3 * (Dollar \div 2)>>
  /\ summary.num_listings = 2
  /\ summary.computed_min_price = Dollar \div 2

\* The first cell of the row that holds a parseable amount, zero included;
\* Null when no cell does.
RECURSIVE FirstParseable(_)
FirstParseable(td_texts) ==
  IF td_texts = <<>> THEN Null
  ELSE IF parse_money(Head(td_texts)) # Null THEN parse_money(Head(td_texts))
  ELSE FirstParseable(Tail(td_texts))

\* One price per Buy row with a parseable cell: the amount of the first.
RECURSIVE FirstParseablePrices(_)
FirstParseablePrices(rows) ==
  IF rows = <<>> THEN <<>>
  ELSE IF RowHasBuy(Head(rows)) /\ FirstParseable(Head(rows)) # Null
    THEN <<FirstParseable(Head(rows))>> \o FirstParseablePrices(Tail(rows))
  ELSE FirstParseablePrices(Tail(rows))

\* C16 as stated: all_prices holds, for every Buy row with a parseable
\* cell, the amount of the first such cell (a zero amount included), and
\* nothing else.
FirstParseableCellTaken ==
  Parsed => summary.all_prices = Sorted(FirstParseablePrices(html.table))

\* --------------------------------------------------- notifier claims

\* The place of a kind of message in the fixed order.
KindRank(m) ==
  CASE m.kind = "target" -> 1
    [] m.kind = "newlow" -> 2
    [] m.kind \in {"posted", "sold"} -> 3
    [] m.kind = "price" -> 4
    [] m.kind = "market" -> 5

\* notifier.notify has been called in the cycle (it returned or raised).
NotifierCalled == sent # <<>> \/ failed = "notify"

\* C17: in every cycle the notifier is called at most once, and exactly
\* when a rule emitted a message; the notification carries the messages of
\* the cycle in the order target-hit, new-low, listing-count, price-change,
\* market-snapshot, each kind at most once; and it is sent only after the
\* row of the cycle has been appended to the history.
NotifierOncePerCycle ==
  /\ Len(sent) <= 1
  /\ CycleOver => (NotifierCalled <=> trigger_msgs # <<>>)
  /\ \A i, j \in 1..Len(trigger_msgs) :
       i < j => KindRank(trigger_msgs[i]) < KindRank(trigger_msgs[j])
  /\ sent # <<>> => sent[1] = trigger_msgs
  /\ NotifierCalled => history = Append(pre.history, HistoryRow(summary))

\* C17 witness: one notification with a target-hit, a new-low, a
\* listing-count and a market-snapshot message, in that order, has been
\* sent after the row of the cycle was appended.
FourKindsSentInOrder ==
  /\ pc = "after"
  /\ Len(sent) = 1
  /\ Len(sent[1]) = 4
  /\ sent[1][1].kind = "target"
  /\ sent[1][2].kind = "newlow"
  /\ sent[1][3].kind = "posted"
  /\ sent[1][4].kind = "market"
  /\ RowAppended

\* -------------------------------------------------- all-time low claims

\* C18: all_time_low never increases and never returns to None once it is
\* set, whatever cycles succeed or fail; with notify_on_new_low enabled it
\* is, once the rules of a cycle with an effective low have been evaluated,
\* at most that effective low plus 1e-9; with notify_on_new_low disabled it
\* keeps the value read at startup.
AllTimeLowMonotone ==
  /\ [][all_time_low # Null
          => all_time_low' # Null /\ all_time_low' <= all_time_low]_vars
  /\ [](detected /\ notify_on_new_low /\ SummaryLow # Null
          => all_time_low # Null /\ all_time_low <= SummaryLow + NEW_LOW_TOL)
  /\ [](~notify_on_new_low
          => all_time_low = read_last_lowest(SubSeq(history, 1, startLen)))

\* C18 witness: the second cycle of a run lowered an all_time_low that the
\* first cycle had set, and the page of the second holds a price above it.
AllTimeLowLoweredTwice ==
  /\ cycles = 2
  /\ detected
  /\ notify_on_new_low
  /\ startLen = 0
  /\ pre.all_time_low # Null
  /\ all_time_low < pre.all_time_low
  /\ summary.lowest_price > all_time_low

\* ------------------------------------------------- null count claims

\* The history held two rows or more when the cycle started; the count of
\* the row before the last.
CountBeforePrior ==
  LET row == pre.history[Len(pre.history) - 1]
  IN IF row.num_listings # <<>> THEN ParseInt(row.num_listings) ELSE Null

\* C19: a cycle that observes num_listings = None stores None as
\* last_state.num_listings, and a cycle that starts with a stored count of
\* None emits no posted/sold message, whatever its own count and whatever
\* count was observed before the None.
NullCountForgetsListings ==
  /\ detected /\ summary.num_listings = Null => last_state.num_listings = Null
  /\ detected /\ PriorListings = Null => MsgsOfKind({"posted", "sold"}) = <<>>

\* C19 witness: counts 2, None, 1 in consecutive observations; the rules of
\* the third have been evaluated and gave no posted/sold message.
CountNullCountNoMessage ==
  /\ detected
  /\ failed = "none"
  /\ Len(pre.history) >= 2
  /\ CountBeforePrior = 2
  /\ PriorListings = Null
  /\ summary.num_listings = 1
  /\ MsgsOfKind({"posted", "sold"}) = <<>>
  /\ last_state.num_listings = 1

\* ------------------------------------------------ target level claims

\* The lowest price of the cycle is at or below a configured target.
AtOrBelowTarget ==
  /\ target_price > 0
  /\ summary.lowest_price # Null
  /\ summary.lowest_price <= target_price

\* C20: the target-hit alert is level-triggered: whenever the rules of a
\* cycle are evaluated with a lowest price at or below the target, a
\* target-hit message is emitted, whatever the last observation was; and
\* when such a cycle ends without a failure, one notification with the
\* messages of the cycle has been sent.
TargetHitLevelTriggered ==
  /\ detected /\ AtOrBelowTarget => MsgsOfKind({"target"}) # <<>>
  /\ CycleOver /\ failed = "none" /\ AtOrBelowTarget
       => Len(sent) = 1 /\ sent[1] = trigger_msgs

\* C20 witness: the second of two cycles of one run with the same lowest
\* price at the target has ended, and its notification holds a target-hit
\* message although the cycle before raised the same alert.
TargetHitRepeated ==
  /\ CycleOver
  /\ failed = "none"
  /\ cycles = 2
  /\ startLen = 0
  /\ AtOrBelowTarget
  /\ pre.last_state.lowest_price = summary.lowest_price
  /\ Len(sent) = 1
  /\ sent[1][1].kind = "target"

====
